---- MODULE Spec2Model ----
(***************************************************************************)
(* Model of the cgware/vscode-cmake shell execution protocol               *)
(* (Terminal.shell / Terminal.exec) and of the CMake.generate / CMake.build *)
(* command flows that drive it.                                            *)
(*                                                                         *)
(* The VS Code window is the environment: it closes terminals, changes the *)
(* active terminal, announces shell integration and reports the end of     *)
(* shell executions.  Every event handler of the Terminal class is one     *)
(* action; the asynchronous part of the end-of-execution handler (the      *)
(* drain of the output stream) is a second step of that handler.           *)
(*                                                                         *)
(* The second half models the project loader (parse_cmake and its table of *)
(* statement handlers), the project model it fills (CMake, CMakeTarget),   *)
(* the reselection of the target after a reload (ProjectProvider.setCMake) *)
(* and CMake.run.  The build-description files on disk are the environment *)
(* of the loader: a load pass reads the files that are there when it runs. *)
(***************************************************************************)
EXTENDS Integers, Sequences, FiniteSets, TLC

\* ---------------------------------------------------------------- bounds
MaxCalls == 2
MaxSessions == 2
MaxDraining == 2
\* lines of the root build-description file, and of the file of a subdirectory
MaxLines == 2
MaxSubLines == 1
\* load passes followed, and frames of parse_cmake the call stack has room for
MaxLoads == 2
MaxDepth == 3

\* ------------------------------------------------------------- constants
None == 0
Absent == -1
Failure == 1

Calls == 1..MaxCalls
Sessions == 1..MaxSessions
\* a terminal of the window that the Terminal object did not create
Other == MaxSessions + 1
\* the terminals the window may hold
Terminals == Sessions \cup {Other}
\* an execution that no exec call started (typed by the user, another tool)
Foreign == MaxCalls + 1
Execs == Calls \cup {Foreign}
ExitCodes == {Absent, 0, Failure}

VARIABLES
    terminal,   \* Terminal.terminal: the owned session, None when undefined
    active,     \* Terminal.active
    created,    \* number of sessions window.createTerminal has returned
    open,       \* open[t]: terminal t exists and has not been closed
    integ,      \* integ[s]: s.shellIntegration is defined
    ncalls,     \* number of exec calls made so far
    calls,      \* calls[c]: the state of the c-th exec call
    execs,      \* execs[c]: the shell execution started by call c
    handlers,   \* end-of-execution handlers that are draining a stream
    log,        \* the commands sent, in order: [call, session]
    buildDir,   \* existsSync(cmake.buildDir)
    flow,       \* the CMake.generate / CMake.build call in progress
    disk,       \* the build-description files the load pass in progress reads
    loading,    \* the CMake object that parse_cmake is filling
    stack,      \* the calls of parse_cmake in progress, innermost last
    status,     \* where the refresh is: idle, loading, parsed, threw
    provider,   \* ProjectProvider: its cmake and its selected target
    run         \* the CMake.run call that is followed

termVars == <<terminal, active, created, open, integ, ncalls, calls, execs,
              handlers, log, buildDir, flow>>

loadVars == <<disk, loading, stack, status, provider, run>>

vars == <<terminal, active, created, open, integ, ncalls, calls, execs,
          handlers, log, buildDir, flow,
          disk, loading, stack, status, provider, run>>

\* st: where the call is; promise: the promise exec returned; listening:
\* `dispose` is defined; subshell: the local of exec.  The other fields
\* record what happened: resolves counts the resolve() calls, resumed the
\* times the awaiting caller was resumed, resolvedBy the execution whose
\* signal settled the promise, failed / waited that a signal of the call's
\* own execution was handled with a non-zero / an absent exit code.
NoCall == [st |-> "none", cmd |-> "none", promise |-> "none",
           listening |-> FALSE, subshell |-> FALSE,
           resolves |-> 0, resumed |-> 0, resolvedBy |-> None,
           failed |-> FALSE, waited |-> FALSE,
           session |-> None, made |-> FALSE, showed |-> FALSE]

\* st: the execution of a call; code: the exit code it ended with
NoExec == [st |-> "none", code |-> Absent]

Running == [st |-> "running", code |-> Absent]

NoFlow == [kind |-> "none", pc |-> "idle", gen |-> None, bld |-> None,
           hadDir |-> FALSE]

\* ------------------------------------------------------ the project model
\* a value that is `undefined`: a missing argument, an unset output name
Undefined == "undefined"

\* a path is the sequence of its segments; NoPath is an output directory
\* that is `undefined`
NoPath == <<>>

\* cmake.ts 11-14 (CMakeConfig) and 6-9 (CMakeTargetType)
Configs == {"DEBUG", "RELEASE"}

TargetTypes == {"BUILD", "RUN"}

\* cmake.ts 100: join(rootDir, 'build'), relative to the root directory
BuildDirPath == <<"build">>

\* path.join(base, seg) for a segment that is a plain name or "."
Join(base, seg) == IF seg = "." THEN base ELSE Append(base, seg)

\* path.join throws a TypeError when an argument is not a string
JoinThrows(seg) == seg = Undefined

\* ProjectProvider.target when no target is selected
NoTarget == [name |-> Undefined, type |-> "NONE",
             outDir |-> [c \in Configs |-> NoPath], outName |-> Undefined,
             obj |-> <<0, 0>>]

\* cmake.ts 31-40 and 53-56: a build target has no output directory and no
\* output name; obj is the identity of the object: the model it was created
\* for and its place in that model's list
CMakeBuildTarget(name) ==
    [name |-> name, type |-> "BUILD",
     outDir |-> [c \in Configs |-> NoPath], outName |-> Undefined,
     obj |-> <<0, 0>>]

\* cmake.ts 63-68: outDir.fill(outDir) sets the directory of every configuration
CMakeRunTarget_NoName(name, outDir, outName) ==
    [name |-> name, type |-> "RUN",
     outDir |-> [c \in Configs |-> outDir], outName |-> Undefined,
     obj |-> <<0, 0>>]
CMakeRunTarget(name, outDir, outName) ==
    [name |-> name, type |-> "RUN",
     outDir |-> [c \in Configs |-> outDir], outName |-> outName,
     obj |-> <<0, 0>>]

\* cmake.ts 48-50: other && name === other.name && type === other.type
equals_Identity(this, other) == other # NoTarget /\ this.obj = other.obj
equals(this, other) ==
    other # NoTarget /\ this.name = other.name /\ this.type = other.type

\* targets.push(...ts): the new objects are those of model cm
Push_Front(cm, ts) ==
    [cm EXCEPT !.targets =
        [k \in 1..Len(ts) |->
            [ts[k] EXCEPT !.obj = <<cm.gen, Len(cm.targets) + k>>]] \o @]
Push(cm, ts) ==
    [cm EXCEPT !.targets = @ \o
        [k \in 1..Len(ts) |->
            [ts[k] EXCEPT !.obj = <<cm.gen, Len(cm.targets) + k>>]]]

\* cmake.ts 87-101: new CMake(rootDir), the g-th model that is constructed
NewCMake_Empty(g) == [gen |-> g, files |-> <<>>, targets |-> <<>>]
NewCMake(g) ==
    Push([gen |-> g, files |-> <<>>, targets |-> <<>>],
         <<CMakeBuildTarget("all"), CMakeBuildTarget("clean")>>)

\* part_001 line 176 and line 202: targets.find(equals) || targets.at(0)
Find(targets, selected) ==
    LET Eq == {k \in DOMAIN targets : equals(targets[k], selected)}
    IN  IF Eq # {} THEN targets[CHOOSE k \in Eq : \A j \in Eq : k <= j]
        ELSE IF targets # <<>> THEN targets[1]
        ELSE NoTarget

\* part_001 174-180: new ProjectProvider(cmake); prev records the selection
\* that the last setCMake replaced, while the target it selected stands
NewProvider(cm) ==
    [cmake |-> cm, target |-> Find(cm.targets, NoTarget), prev |-> NoTarget]

NoDisk == <<>>

\* cmake.ts 145-152: the configuration handed to debug.startDebugging
NoDescriptor == [type |-> "none", program |-> NoPath, cwd |-> NoPath]

\* part_001 128-129: the debugger kinds the user selects from
Debuggers == {"cppdbg", "cppvsdbg"}

\* launch: the call came from CMakeRunTarget.run; kind: the dbg argument;
\* dbg: debug.startDebugging was called, with descriptor desc; cmd: the
\* local cmd of CMake.run; call: the exec call that sends it
NoRun == [st |-> "none", error |-> "none", target |-> NoTarget,
          config |-> "none", cmd |-> NoPath, dbg |-> FALSE, call |-> None,
          launch |-> FALSE, kind |-> "none", desc |-> NoDescriptor]

Init ==
    /\ terminal = None
    /\ active = FALSE
    /\ created = 0
    /\ \E other \in BOOLEAN : open = [t \in Terminals |-> t = Other /\ other]
    /\ integ = [s \in Sessions |-> FALSE]
    /\ ncalls = 0
    /\ calls = [c \in Calls |-> NoCall]
    /\ execs = [c \in Calls |-> NoExec]
    /\ handlers = {}
    /\ log = <<>>
    /\ buildDir \in BOOLEAN
    /\ flow = NoFlow
    /\ disk = NoDisk
    /\ loading = NewCMake(0)
    /\ stack = <<>>
    /\ status = "idle"
    /\ provider = NewProvider(NewCMake(0))
    /\ run = NoRun

\* ------------------------------------------------------- Terminal.shell
\* part_002 line 26: a session is created only when none is owned
NeedsCreate_Always == TRUE
NeedsCreate == terminal = None

\* line 32: the owned session is shown when it is not the active one
NeedsShow_Never == FALSE
NeedsShow == ~active

\* line 37: whether the session shell() ends up with has its integration;
\* a session that was just created has none yet
HasIntegration_Always(s, fresh) == TRUE
HasIntegration_Queued(s, fresh) ==
    ~fresh /\ integ[s] /\ \A c \in Calls : ~calls[c].listening
HasIntegration(s, fresh) == ~fresh /\ integ[s]

\* lines 43-45: the readiness listener acts on the owned session only
IsOwned_Any(s) == TRUE
IsOwned(s) == s = terminal

\* ------------------------------------------------------- Terminal.exec
\* line 57: executeCommand on the integration shell() resolved with;
\* ok = FALSE is executeCommand throwing, which the catch turns into reject
Sent(cl, s, ok) ==
    IF ok THEN [cl EXCEPT !.st = "sent", !.listening = TRUE,
                          !.subshell = FALSE, !.session = s]
          ELSE [cl EXCEPT !.st = "threw", !.promise = "rejected"]

RECURSIVE SortedSeq(_)
SortedSeq(S) ==
    IF S = {} THEN <<>>
    ELSE LET m == CHOOSE x \in S : \A y \in S : x <= y
         IN <<m>> \o SortedSeq(S \ {m})

SendLog(S, s) == [i \in 1..Cardinality(S) |->
                    [call |-> SortedSeq(S)[i], session |-> s]]

\* lines 24-58: exec(cmd) up to the point where it sends or suspends
Exec(cmd, ok) ==
    LET c == ncalls + 1
        fresh == NeedsCreate
        s == IF fresh THEN created + 1 ELSE terminal
        show == fresh \/ NeedsShow
        ready == HasIntegration(s, fresh)
        cl == [NoCall EXCEPT !.cmd = cmd, !.promise = "pending",
                             !.made = fresh, !.showed = show]
    IN  /\ ncalls < MaxCalls
        /\ fresh => created < MaxSessions
        /\ ncalls' = c
        /\ terminal' = s
        /\ active' = (active \/ show)
        /\ created' = IF fresh THEN s ELSE created
        /\ open' = IF fresh THEN [open EXCEPT ![s] = TRUE] ELSE open
        /\ integ' = integ
        /\ calls' = [calls EXCEPT ![c] =
                IF ready THEN Sent(cl, s, ok)
                         ELSE [cl EXCEPT !.st = "waiting"]]
        /\ execs' = IF ready /\ ok THEN [execs EXCEPT ![c] = Running]
                                   ELSE execs
        /\ log' = IF ready /\ ok THEN log \o SendLog({c}, s) ELSE log
        /\ handlers' = handlers

\* line 60: which end-of-execution events the listener of call c acts on
Accepts(c, e) == c = e \/ calls[c].subshell

\* line 64: an absent exit code means a nested interactive layer
IsNested_Never(code) == FALSE
IsNested(code) == code = Absent

\* lines 71-73: resolve() is called for exit code 0 only
CallsResolve_NonZero(code) == code # 0
CallsResolve(code) == code = 0

\* lines 64-76: the handler never calls reject
CallsReject_NonZero(code) == code # 0
CallsReject(code) == FALSE

\* a promise settles once: resolve() or reject() on a settled one does nothing
Settle(p, to) == IF p = "pending" THEN to ELSE p

\* line 72: resolve() resumes the awaiting caller only if it settles the promise
Resumes_Always(p) == TRUE
Resumes(p) == p = "pending"

\* lines 64-76: the handler of call c after the stream has been drained
AfterDrain(cl, c, e, code) ==
    IF IsNested(code)
    THEN [cl EXCEPT !.subshell = TRUE, !.waited = @ \/ c = e]
    ELSE [cl EXCEPT
            !.subshell = FALSE,
            !.promise = IF CallsResolve(code) THEN Settle(@, "fulfilled")
                        ELSE IF CallsReject(code) THEN Settle(@, "rejected")
                        ELSE @,
            !.resolves = IF CallsResolve(code) THEN @ + 1 ELSE @,
            !.resumed = IF CallsResolve(code) /\ Resumes(cl.promise)
                        THEN @ + 1 ELSE @,
            !.resolvedBy = IF CallsResolve(code) /\ cl.promise = "pending"
                           THEN e ELSE @,
            !.failed = @ \/ (c = e /\ code # 0),
            !.listening = FALSE]

\* ------------------------------------------------------------- actions
\* Terminal.exec called with a plain command
ExecRaw ==
    /\ \E ok \in BOOLEAN : Exec("raw", ok)
    /\ UNCHANGED <<buildDir, flow>>
    /\ UNCHANGED loadVars

\* One call of CMake.generate or CMake.build is followed at a time, the next
\* one once it has settled; exec calls that overlap are those of SpecTerm.
Idle == flow.pc \in {"idle", "done", "rejected"}

\* cmake.ts line 104: rmSync(buildDir, {recursive, force}) leaves no directory
RmSync_Keep(dir) == dir
RmSync(dir) == FALSE

\* CMake.generate (cmake.ts 103-112): remove the build directory, then exec
GenerateStart ==
    /\ Idle
    /\ \E ok \in BOOLEAN : Exec("generate", ok)
    /\ buildDir' = RmSync(buildDir)
    /\ flow' = [NoFlow EXCEPT !.kind = "generate", !.pc = "gen",
                              !.gen = ncalls + 1, !.hadDir = buildDir]
    /\ UNCHANGED loadVars

\* line 117: generate first when the build directory is absent
NeedsGenerate_Never == FALSE
NeedsGenerate == ~buildDir

\* CMake.build (cmake.ts 114-125) up to its first await
Build ==
    /\ Idle
    /\ IF NeedsGenerate
       THEN /\ \E ok \in BOOLEAN : Exec("generate", ok)
            /\ flow' = [NoFlow EXCEPT !.kind = "build", !.pc = "gen",
                                      !.gen = ncalls + 1, !.hadDir = buildDir]
            /\ buildDir' = RmSync(buildDir)
       ELSE /\ \E ok \in BOOLEAN : Exec("build", ok)
            /\ flow' = [NoFlow EXCEPT !.kind = "build", !.pc = "build",
                                      !.bld = ncalls + 1, !.hadDir = buildDir]
            /\ UNCHANGED buildDir

\* a build command of the extension: CMake.build and nothing else
BuildStart ==
    /\ Build
    /\ UNCHANGED loadVars

\* CMake.build resumed after `await this.generate(...)` (lines 118-125)
BuildAfterGenerate ==
    /\ flow.kind = "build" /\ flow.pc = "gen"
    /\ calls[flow.gen].promise = "fulfilled"
    /\ \E ok \in BOOLEAN : Exec("build", ok)
    /\ flow' = [flow EXCEPT !.pc = "build", !.bld = ncalls + 1]
    /\ UNCHANGED buildDir
    /\ UNCHANGED loadVars

\* the promise the flow awaits has settled: resolve() (line 126), the
\* catch (lines 127-129), or the promise generate returned
FlowAwaits ==
    IF flow.pc = "build" THEN flow.bld
    ELSE IF flow.pc = "gen" THEN flow.gen ELSE None

FlowFinish ==
    /\ FlowAwaits # None
    /\ \/ /\ calls[FlowAwaits].promise = "rejected"
          /\ flow' = [flow EXCEPT !.pc = "rejected"]
       \/ /\ calls[FlowAwaits].promise = "fulfilled"
          /\ flow.pc = "build" \/ flow.kind = "generate"
          /\ flow' = [flow EXCEPT !.pc = "done"]
    /\ UNCHANGED <<terminal, active, created, open, integ, ncalls, calls,
                   execs, handlers, log, buildDir>>
    /\ UNCHANGED loadVars

\* the generator, while its command runs, creates the build directory; like
\* the end of its execution, this happens only while its session is open
MkBuildDir ==
    /\ ~buildDir
    /\ \E c \in Calls :
          /\ calls[c].cmd = "generate"
          /\ execs[c].st = "running"
          /\ open[calls[c].session]
    /\ buildDir' = TRUE
    /\ UNCHANGED <<terminal, active, created, open, integ, ncalls, calls,
                   execs, handlers, log, flow>>
    /\ UNCHANGED loadVars

\* window.onDidChangeTerminalShellIntegration (lines 42-50): the waiting
\* calls are resumed in the order they registered and send their commands
IntegrationReady(s) ==
    /\ open[s]
    /\ integ' = IF s \in Sessions THEN [integ EXCEPT ![s] = TRUE] ELSE integ
    /\ LET W == IF IsOwned(s)
                THEN {c \in Calls : calls[c].st = "waiting"} ELSE {}
       IN \E okset \in SUBSET W :
            /\ calls' = [c \in Calls |->
                    IF c \in W THEN Sent(calls[c], s, c \in okset)
                               ELSE calls[c]]
            /\ execs' = [c \in Calls |->
                    IF c \in okset THEN Running ELSE execs[c]]
            /\ log' = log \o SendLog(okset, s)
    /\ UNCHANGED <<terminal, active, created, open, ncalls, handlers,
                   buildDir, flow>>
    /\ UNCHANGED loadVars

\* window.onDidEndTerminalShellExecution fires (lines 59-62): every listener
\* that accepts the event starts draining the stream of the execution.
\* An execution reports absent exit codes (nested layers), any number of
\* them, and then one exit code; a foreign execution is a new one each time.
EndSignal(e, code) ==
    /\ e \in Calls =>
         /\ execs[e].st = "running"
         /\ open[calls[e].session]
    /\ execs' = IF e \in Calls
                THEN [execs EXCEPT ![e] =
                        IF code = Absent THEN @
                        ELSE [@ EXCEPT !.st = "ended", !.code = code]]
                ELSE execs
    /\ handlers' = handlers \cup
          {[call |-> c, exe |-> e, code |-> code] :
              c \in {d \in Calls : calls[d].listening /\ Accepts(d, e)}}
    /\ Cardinality(handlers') <= MaxDraining
    /\ UNCHANGED <<terminal, active, created, open, integ, ncalls, calls,
                   log, buildDir, flow>>
    /\ UNCHANGED loadVars

\* the stream of an ended execution has been read to its end (lines 62-76)
DrainDone(h) ==
    /\ h \in handlers
    /\ handlers' = handlers \ {h}
    /\ calls' = [calls EXCEPT ![h.call] = AfterDrain(@, h.call, h.exe, h.code)]
    /\ UNCHANGED <<terminal, active, created, open, integ, ncalls, execs,
                   log, buildDir, flow>>
    /\ UNCHANGED loadVars

\* lines 11-13: the close listener acts on the owned session only
ClosedOwned_Never(t) == FALSE
ClosedOwned_Always(t) == TRUE
ClosedOwned(t) == t = terminal

\* window.onDidCloseTerminal (lines 10-17)
CloseTerminal(t) ==
    /\ open[t]
    /\ open' = [open EXCEPT ![t] = FALSE]
    /\ IF ClosedOwned(t)
       THEN terminal' = None /\ active' = FALSE
       ELSE UNCHANGED <<terminal, active>>
    /\ UNCHANGED <<created, integ, ncalls, calls, execs, handlers, log,
                   buildDir, flow>>
    /\ UNCHANGED loadVars

\* window.onDidChangeActiveTerminal (lines 19-21); t = None is `undefined`
ChangeActiveTerminal(t) ==
    /\ t \in Terminals => open[t]
    /\ active' = (terminal = t)
    /\ UNCHANGED <<terminal, created, open, integ, ncalls, calls, execs,
                   handlers, log, buildDir, flow>>
    /\ UNCHANGED loadVars

HandlerSpace == [call : Calls, exe : Execs, code : ExitCodes]

\* the window: what VS Code may do at any moment
Window ==
    \/ \E s \in Terminals : IntegrationReady(s)
    \/ \E e \in Execs, code \in ExitCodes : EndSignal(e, code)
    \/ \E h \in HandlerSpace : DrainDone(h)
    \/ \E t \in Terminals : CloseTerminal(t)
    \/ \E t \in Terminals \cup {None} : ChangeActiveTerminal(t)

\* the shell session driven by arbitrary callers of exec
\* the window holds a terminal of another owner when the Terminal is made
InitTerm == Init /\ buildDir = FALSE /\ open[Other]

NextTerm ==
    \/ ExecRaw
    \/ Window

SpecTerm == InitTerm /\ [][NextTerm]_vars

\* the stream of an execution that has ended is finite: the handler that
\* drains it reaches its end
FairTerm ==
    /\ SpecTerm
    /\ \A c \in Calls : WF_vars(DrainDone([call |-> c, exe |-> c, code |-> 0]))

\* the session driven by CMake.generate and CMake.build
Next ==
    \/ GenerateStart
    \/ BuildStart
    \/ BuildAfterGenerate
    \/ FlowFinish
    \/ MkBuildDir
    \/ Window

\* the window holds no terminal when the Terminal is made
InitFlow == Init /\ ~open[Other]

Spec == InitFlow /\ [][Next]_vars

\* ---------------------------------------------------------- the loader
\* A physical line of a build-description file, by what the pattern of
\* parse_cmake.ts line 82 finds in it: shape "stmt" is `cmd(args)` on one
\* line, shape "open" is `cmd(args` with no closing parenthesis, shape
\* "close" is `args)`, and shape "text" is a line without parentheses that
\* does not start a statement (a comment).  args are the tokens lines 87-89
\* split the text into.
Stmt(cmd, args) == [shape |-> "stmt", cmd |-> cmd, args |-> args]

Open(cmd, args) == [shape |-> "open", cmd |-> cmd, args |-> args]

Close(args) == [shape |-> "close", cmd |-> ")", args |-> args]

TextLine == [shape |-> "text", cmd |-> "#", args |-> <<>>]

\* the lines the files of the model are written with
Lines ==
    { Stmt("add_executable", <<"app">>),
      Stmt("add_executable", <<>>),
      Stmt("add_library", <<"core">>),
      Stmt("add_custom_target", <<"all">>),
      Stmt("enable_testing", <<>>),
      Stmt("add_subdirectory", <<"libs">>),
      Stmt("add_subdirectory", <<".">>),
      Stmt("add_subdirectory", <<>>),
      Stmt("set_target_properties",
           <<"app", "PROPERTIES", "RUNTIME_OUTPUT_DIRECTORY_DEBUG",
             "${CMAKE_SOURCE_DIR}",
             "OUTPUT_NAME", "myapp">>),
      Stmt("set_target_properties",
           <<"app", "core", "PROPERTIES", "LIBRARY_OUTPUT_DIRECTORY_RELEASE",
             "lib", "RUNTIME_OUTPUT_DIRECTORY_RELEASE">>),
      Stmt("set_target_properties", <<"app", "PROPERTIES", "OUTPUT_NAME">>),
      Stmt("set_target_properties", <<"app", "OUTPUT_NAME", "myapp">>),
      Stmt("project", <<"demo">>),
      Open("add_library", <<"core">>),
      Close(<<>>),
      TextLine }

SeqsUpTo(S, n) == UNION {[1..k -> S] : k \in 0..n}

NoFile == [exists |-> FALSE, lines |-> <<>>]

File(lines) == [exists |-> TRUE, lines |-> lines]

\* the directories that may hold a build-description file
Root == <<>>

Libs == <<"libs">>

Dirs == {Root, Libs}

FileSystems ==
    {[d \in Dirs |-> IF d = Root THEN r ELSE s] :
        r \in {NoFile} \cup {File(l) : l \in SeqsUpTo(Lines, MaxLines)},
        s \in {NoFile} \cup {File(l) : l \in SeqsUpTo(Lines, MaxSubLines)}}

\* the file systems with a build-description file in the root directory only
SingleFile == {f \in FileSystems : ~f[Libs].exists}

\* parse_cmake.ts 71-73: existsSync(join(rootDir, subdir?, 'CMakeLists.txt'))
ExistsSync_Dir(dir) == dir \in Dirs
ExistsSync(dir) == dir \in Dirs /\ disk[dir].exists

\* the tokens a line adds to the argument text of a statement that was
\* opened on a line before it: `[^)]*` takes every character up to the
\* first closing parenthesis, line breaks and opening parentheses included
Raw(l) ==
    IF l.shape = "close" THEN l.args
    ELSE IF l.shape = "text" THEN <<l.cmd>>
    ELSE IF l.args = <<>> THEN <<l.cmd \o "(">>
    ELSE <<l.cmd \o "(" \o l.args[1]>> \o Tail(l.args)

RECURSIVE RawText(_, _, _)
RawText(lines, p, q) ==
    IF p > q THEN <<>> ELSE Raw(lines[p]) \o RawText(lines, p + 1, q)

\* a scan that takes single-line statements only
RECURSIVE ScanFrom_SingleLine(_, _)
ScanFrom_SingleLine(lines, p) ==
    IF p > Len(lines) THEN <<>>
    ELSE IF lines[p].shape = "stmt"
        THEN <<[cmd |-> lines[p].cmd, args |-> lines[p].args]>>
                 \o ScanFrom_SingleLine(lines, p + 1)
    ELSE ScanFrom_SingleLine(lines, p + 1)

\* parse_cmake.ts 82-91: reg.exec from line p on.  A match starts at the
\* start of a line with `cmd(`, runs to the first closing parenthesis of
\* the rest of the file, which must end its line, and the next search
\* starts behind it.
RECURSIVE ScanFrom(_, _)
ScanFrom(lines, p) ==
    IF p > Len(lines) THEN <<>>
    ELSE IF lines[p].shape = "stmt"
        THEN <<[cmd |-> lines[p].cmd, args |-> lines[p].args]>>
                 \o ScanFrom(lines, p + 1)
    ELSE IF lines[p].shape = "open"
        THEN LET Q == {q \in (p + 1)..Len(lines) :
                          lines[q].shape \in {"stmt", "close"}}
             IN  IF Q = {} THEN ScanFrom(lines, p + 1)
                 ELSE LET q == CHOOSE k \in Q : \A j \in Q : k <= j
                      IN  <<[cmd |-> lines[p].cmd,
                             args |-> lines[p].args
                                          \o RawText(lines, p + 1, q)]>>
                              \o ScanFrom(lines, q + 1)
    ELSE ScanFrom(lines, p + 1)

\* parse_cmake.ts 79-91: the statements of a file, in file order
Scan_SingleLine(lines) == ScanFrom_SingleLine(lines, 1)
Scan(lines) == ScanFrom(lines, 1)

\* args[0], which is undefined when the argument list is empty
Arg0(args) == IF Len(args) > 0 THEN args[1] ELSE Undefined

\* parse_cmake.ts 32-37
add_executable(cm, subdir, args) ==
    Push(cm, <<CMakeBuildTarget(Arg0(args)),
               CMakeRunTarget(Arg0(args), BuildDirPath \o subdir, Arg0(args))>>)

\* parse_cmake.ts 38-40
add_library(cm, subdir, args) == Push(cm, <<CMakeBuildTarget(Arg0(args))>>)

\* parse_cmake.ts 44-46
add_custom_target(cm, subdir, args) ==
    Push(cm, <<CMakeBuildTarget(Arg0(args))>>)

\* parse_cmake.ts 65-67
enable_testing(cm, subdir, args) == Push(cm, <<CMakeBuildTarget("test")>>)

\* parse_cmake.ts 5-29: props[prop](targets, val) on the matched targets M;
\* a key that is not in the table changes nothing (line 62)
OutDirValue(val) == IF val = Undefined THEN NoPath ELSE <<val>>

Props_AnyVariant(prop, ts, M, val) ==
    [k \in DOMAIN ts |->
        IF k \notin M THEN ts[k]
        ELSE IF prop \in {"RUNTIME_OUTPUT_DIRECTORY_DEBUG",
                          "LIBRARY_OUTPUT_DIRECTORY_DEBUG"}
            THEN [ts[k] EXCEPT !.outDir["DEBUG"] = OutDirValue(val)]
        ELSE IF prop \in {"RUNTIME_OUTPUT_DIRECTORY_RELEASE",
                          "LIBRARY_OUTPUT_DIRECTORY_RELEASE"}
            THEN [ts[k] EXCEPT !.outDir["RELEASE"] = OutDirValue(val)]
        ELSE IF prop = "OUTPUT_NAME"
            THEN [ts[k] EXCEPT !.outName = val]
        ELSE ts[k]]
Props(prop, ts, M, val) ==
    [k \in DOMAIN ts |->
        IF k \notin M THEN ts[k]
        ELSE IF prop = "RUNTIME_OUTPUT_DIRECTORY_DEBUG" /\ ts[k].type = "RUN"
            THEN [ts[k] EXCEPT !.outDir["DEBUG"] = OutDirValue(val)]
        ELSE IF prop = "LIBRARY_OUTPUT_DIRECTORY_DEBUG" /\ ts[k].type = "BUILD"
            THEN [ts[k] EXCEPT !.outDir["DEBUG"] = OutDirValue(val)]
        ELSE IF prop = "RUNTIME_OUTPUT_DIRECTORY_RELEASE" /\ ts[k].type = "RUN"
            THEN [ts[k] EXCEPT !.outDir["RELEASE"] = OutDirValue(val)]
        ELSE IF prop = "LIBRARY_OUTPUT_DIRECTORY_RELEASE" /\ ts[k].type = "BUILD"
            THEN [ts[k] EXCEPT !.outDir["RELEASE"] = OutDirValue(val)]
        ELSE IF prop = "OUTPUT_NAME"
            THEN [ts[k] EXCEPT !.outName = val]
        ELSE ts[k]]

\* parse_cmake.ts 59-63: prop = args[i++]; val = args[i++], which is
\* undefined when the key is the last token
RECURSIVE ApplyProps(_, _, _, _)
ApplyProps(ts, M, args, i) ==
    IF i > Len(args) THEN ts
    ELSE LET prop == args[i]
             val == IF i + 1 <= Len(args) THEN args[i + 1] ELSE Undefined
         IN  ApplyProps(Props(prop, ts, M, val), M, args, i + 2)

\* parse_cmake.ts 47-64
set_target_properties_All(cm, subdir, args) ==
    LET P == {k \in DOMAIN args : args[k] = "PROPERTIES"}
        i == IF P = {} THEN Len(args) + 1
             ELSE CHOOSE k \in P : \A j \in P : k <= j
    IN  IF P = {} THEN cm
        ELSE [cm EXCEPT !.targets = ApplyProps(@, DOMAIN @, args, i + 1)]
set_target_properties(cm, subdir, args) ==
    LET P == {k \in DOMAIN args : args[k] = "PROPERTIES"}
        i == IF P = {} THEN Len(args) + 1
             ELSE CHOOSE k \in P : \A j \in P : k <= j
        names == {args[k] : k \in 1..(i - 1)}
        M == {k \in DOMAIN cm.targets : cm.targets[k].name \in names}
    IN  IF P = {} THEN cm
        ELSE [cm EXCEPT !.targets = ApplyProps(@, M, args, i + 1)]

\* parse_cmake.ts 31-68 and 93: commands[cmd.cmd] && commands[cmd.cmd](...)
\* for the handlers that do not call parse_cmake
Commands(cmd, cm, subdir, args) ==
    IF cmd = "add_executable" THEN add_executable(cm, subdir, args)
    ELSE IF cmd = "add_library" THEN add_library(cm, subdir, args)
    ELSE IF cmd = "add_custom_target" THEN add_custom_target(cm, subdir, args)
    ELSE IF cmd = "set_target_properties"
        THEN set_target_properties(cm, subdir, args)
    ELSE IF cmd = "enable_testing" THEN enable_testing(cm, subdir, args)
    ELSE cm

\* a call of parse_cmake(subdir, cmake) that has read its file: the
\* statements of the file and the index of the next one forEach handles
Frame(dir) == [subdir |-> dir, cmds |-> Scan(disk[dir].lines), i |-> 1]

Top == stack[Len(stack)]

NextCmd == Top.cmds[Top.i]

Advanced == [stack EXCEPT ![Len(stack)].i = @ + 1]

\* cmake_refresh of the extension (extension.ts 423-426) up to the call of
\* parse_cmake: cmake = parse_cmake(undefined, new CMake(root)), with the
\* files that are on disk at that moment (parse_cmake.ts 70-80)
Refresh(files) ==
    /\ status = "idle"
    /\ run.st = "none"
    /\ loading.gen < MaxLoads
    /\ disk' = files
    /\ LET cm == NewCMake(loading.gen + 1)
       IN  IF files[Root].exists
           THEN /\ loading' = [cm EXCEPT !.files = Append(@, Root)]
                /\ stack' = <<[subdir |-> Root,
                               cmds |-> Scan(files[Root].lines), i |-> 1]>>
                /\ status' = "loading"
           ELSE /\ loading' = cm
                /\ stack' = <<>>
                /\ status' = "parsed"
    /\ UNCHANGED <<provider, run>>
    /\ UNCHANGED termVars

\* forEach handles the next statement with a handler that does not recurse
\* (parse_cmake.ts 93)
HandleCmd ==
    /\ status = "loading"
    /\ Top.i <= Len(Top.cmds)
    /\ NextCmd.cmd # "add_subdirectory"
    /\ loading' = Commands(NextCmd.cmd, loading, Top.subdir, NextCmd.args)
    /\ stack' = Advanced
    /\ UNCHANGED <<disk, status, provider, run>>
    /\ UNCHANGED termVars

\* add_subdirectory (parse_cmake.ts 41-43 and 70-80): join throws on a
\* missing argument; a missing file ends the branch; a call the stack has
\* no room for ends the load with a RangeError
AddSubdirectory ==
    /\ status = "loading"
    /\ Top.i <= Len(Top.cmds)
    /\ NextCmd.cmd = "add_subdirectory"
    /\ LET arg == Arg0(NextCmd.args)
           dir == Join(Top.subdir, arg)
       IN  IF JoinThrows(arg) \/ (ExistsSync(dir) /\ Len(stack) >= MaxDepth)
           THEN /\ status' = "threw"
                /\ stack' = <<>>
                /\ UNCHANGED loading
           ELSE IF ~ExistsSync(dir)
           THEN /\ stack' = Advanced
                /\ UNCHANGED <<status, loading>>
           ELSE /\ loading' = [loading EXCEPT !.files = Append(@, dir)]
                /\ stack' = Append(Advanced, Frame(dir))
                /\ UNCHANGED status
    /\ UNCHANGED <<disk, provider, run>>
    /\ UNCHANGED termVars

\* parse_cmake returns (line 95): to the handler that called it, or to the
\* refresh when it is the outermost call
Return ==
    /\ status = "loading"
    /\ Top.i > Len(Top.cmds)
    /\ stack' = SubSeq(stack, 1, Len(stack) - 1)
    /\ status' = IF Len(stack) = 1 THEN "parsed" ELSE status
    /\ UNCHANGED <<disk, loading, provider, run>>
    /\ UNCHANGED termVars

\* ProjectProvider.setCMake (part_001 200-204) with the model parse_cmake
\* returned
SetCMake ==
    /\ status = "parsed"
    /\ provider' = [cmake |-> loading,
                    target |-> Find(loading.targets, provider.target),
                    prev |-> provider.target]
    /\ status' = "idle"
    /\ disk' = NoDisk
    /\ UNCHANGED <<loading, stack, run>>
    /\ UNCHANGED termVars

\* the exception of a load pass leaves the refresh: the provider keeps the
\* model and the selection it had
Thrown ==
    /\ status = "threw"
    /\ status' = "idle"
    /\ disk' = NoDisk
    /\ UNCHANGED <<loading, stack, provider, run>>
    /\ UNCHANGED termVars

\* ProjectProvider.setTarget (part_001 221-224) with a target of the tree,
\* which shows the targets of the provider's model (part_001 58-70)
SetTarget(k) ==
    /\ status = "idle"
    /\ run.st = "none"
    /\ k \in DOMAIN provider.cmake.targets
    /\ provider.target # provider.cmake.targets[k]
    /\ provider' = [provider EXCEPT !.target = provider.cmake.targets[k],
                                    !.prev = NoTarget]
    /\ UNCHANGED <<disk, loading, stack, status, run>>
    /\ UNCHANGED termVars

\* cmake.ts line 135: !target.outDir || !target.outName; outDir is the array
\* of the target, which every target has
NoOutputFile_Never(target) == FALSE
NoOutputFile(target) == FALSE \/ target.outName = Undefined

\* cmake.ts 99: srcDir = rootDir, relative to the root directory
SrcDirPath == <<>>

\* String.replaceAll on a path, for a pattern that is one segment
RECURSIVE ReplaceAll(_, _, _)
ReplaceAll(path, seg, by) ==
    IF path = <<>> THEN <<>>
    ELSE (IF Head(path) = seg THEN by ELSE <<Head(path)>>)
             \o ReplaceAll(Tail(path), seg, by)

\* cmake.ts 140: cmd.replaceAll('${CMAKE_SOURCE_DIR}', this.srcDir)
Resolve_None(path) == path
Resolve(path) == ReplaceAll(path, "${CMAKE_SOURCE_DIR}", SrcDirPath)

\* cmake.ts 139-140: cmd is a local of run; the model cm with the target is
\* read only
Ran_Resolved(cm, target, config) ==
    [cm EXCEPT !.targets[target.obj[2]].outDir[config] = Resolve(@)]
Ran(cm, target, config) == cm

\* CMake.run (cmake.ts 133-168) up to its await.  join(outDir[config],
\* outName) at line 139 is outside the try: when it throws, the promise run
\* returned is never settled.
CMakeRun(target, config, dbg, launched) ==
    LET r == [NoRun EXCEPT !.target = target, !.config = config,
                           !.kind = dbg, !.launch = launched]
        cmd == Resolve(Append(target.outDir[config], target.outName))
    IN  IF NoOutputFile(target)
        THEN /\ run' = [r EXCEPT !.st = "rejected",
                                 !.error = "No output file"]
             /\ UNCHANGED provider
             /\ UNCHANGED termVars
        ELSE IF target.outDir[config] = NoPath
        THEN /\ run' = [r EXCEPT !.st = "pending", !.error = "TypeError"]
             /\ UNCHANGED provider
             /\ UNCHANGED termVars
        ELSE IF config = "DEBUG"
        THEN /\ run' = [r EXCEPT
                         !.st = "fulfilled", !.dbg = TRUE, !.cmd = cmd,
                         !.desc = [type |-> dbg, program |-> cmd,
                                   cwd |-> BuildDirPath]]
             /\ provider' = [provider EXCEPT
                                !.cmake = Ran(@, target, config)]
             /\ UNCHANGED termVars
        ELSE /\ \E ok \in BOOLEAN : Exec("run", ok)
             /\ run' = [r EXCEPT
                         !.st = IF calls'[ncalls'].promise = "rejected"
                                THEN "rejected" ELSE "pending",
                         !.error = IF calls'[ncalls'].promise = "rejected"
                                   THEN "exec" ELSE "none",
                         !.cmd = cmd,
                         !.call = ncalls']
             /\ provider' = [provider EXCEPT
                                !.cmake = Ran(@, target, config)]
             /\ UNCHANGED <<buildDir, flow>>

\* a run command of the extension for a run target of the provider's model
Run(k, config, dbg) ==
    /\ status = "idle"
    /\ run.st = "none"
    /\ provider.cmake.gen > 0
    /\ k \in DOMAIN provider.cmake.targets
    /\ provider.cmake.targets[k].type = "RUN"
    /\ CMakeRun(provider.cmake.targets[k], config, dbg, FALSE)
    /\ UNCHANGED <<disk, loading, stack, status>>

\* CMakeRunTarget.launch and run (cmake.ts 70-84) up to the first await of
\* the build it starts
LaunchStart(k, config, dbg) ==
    /\ status = "idle"
    /\ run.st = "none"
    /\ provider.cmake.gen > 0
    /\ k \in DOMAIN provider.cmake.targets
    /\ provider.cmake.targets[k].type = "RUN"
    /\ Build
    /\ run' = [NoRun EXCEPT !.st = "building", !.launch = TRUE,
                            !.target = provider.cmake.targets[k],
                            !.config = config, !.kind = dbg]
    /\ UNCHANGED <<disk, loading, stack, status, provider>>

\* CMakeRunTarget.run resumed after `await this.build(...)` (lines 73-78):
\* cmake.run when the build was fulfilled, the catch when it was rejected
LaunchRun ==
    /\ run.st = "building"
    /\ \/ /\ flow.pc = "done"
          /\ CMakeRun(run.target, run.config, run.kind, TRUE)
       \/ /\ flow.pc = "rejected"
          /\ run' = [run EXCEPT !.st = "rejected", !.error = "build"]
          /\ UNCHANGED provider
          /\ UNCHANGED termVars
    /\ UNCHANGED <<disk, loading, stack, status>>

\* CMake.run resumed after `await terminal.exec(cmd)` (lines 156-166)
RunFinish ==
    /\ run.st = "pending"
    /\ run.call # None
    /\ calls[run.call].promise \in {"fulfilled", "rejected"}
    /\ run' = [run EXCEPT !.st = calls[run.call].promise,
                          !.error = IF calls[run.call].promise = "rejected"
                                    THEN "exec" ELSE "none"]
    /\ UNCHANGED <<disk, loading, stack, status, provider>>
    /\ UNCHANGED termVars

Loader ==
    \/ HandleCmd
    \/ AddSubdirectory
    \/ Return
    \/ SetCMake
    \/ Thrown
    \/ \E k \in 1..(2 + 2 * (MaxLines + MaxSubLines)) : SetTarget(k)
    \/ \E k \in 1..(2 + 2 * (MaxLines + MaxSubLines)), config \in Configs,
          dbg \in Debuggers :
          Run(k, config, dbg)

InitLoad == InitFlow /\ buildDir = FALSE

\* one load pass of any file system, then target selection and run
NextLoad ==
    \/ loading.gen = 0 /\ \E files \in FileSystems : Refresh(files)
    \/ Loader

SpecLoad == InitLoad /\ [][NextLoad]_vars

\* reloads of a project that has a root build-description file only
NextReload ==
    \/ \E files \in SingleFile : Refresh(files)
    \/ Loader

SpecReload == InitLoad /\ [][NextReload]_vars

\* the projects that are launched: a root build-description file that
\* declares the program app and sets its name and its Debug directory
Projects ==
    {f \in SingleFile :
        /\ f[Root].exists
        /\ f[Root].lines =
              <<Stmt("add_executable", <<"app">>),
                Stmt("set_target_properties",
                     <<"app", "PROPERTIES", "RUNTIME_OUTPUT_DIRECTORY_DEBUG",
                       "${CMAKE_SOURCE_DIR}", "OUTPUT_NAME", "myapp">>)>>}

\* the commands of the extension need the model of a finished refresh
Loaded == status = "idle" /\ provider.cmake.gen > 0

\* a project is loaded once; then it is generated, built, run and launched
NextLaunch ==
    \/ loading.gen = 0 /\ \E files \in Projects : Refresh(files)
    \/ HandleCmd
    \/ Return
    \/ SetCMake
    \/ Loaded /\ run.st = "none" /\ GenerateStart
    \/ Loaded /\ run.st = "none" /\ BuildStart
    \/ BuildAfterGenerate
    \/ FlowFinish
    \/ MkBuildDir
    \/ \E k \in 1..4, config \in Configs, dbg \in Debuggers :
          \/ Idle /\ Run(k, config, dbg)
          \/ LaunchStart(k, config, dbg)
    \/ LaunchRun
    \/ RunFinish
    \/ Window

SpecLaunch == InitFlow /\ [][NextLaunch]_vars

\* ================================================================ claims
OwnZero(c) == [call |-> c, exe |-> c, code |-> 0]

C2_OnlyOwnSignal ==
    \A c \in Calls :
        calls[c].promise = "fulfilled" => calls[c].resolvedBy = c

\* the execution of call c ends in this step: its exit code is signalled
Ends(c) == execs[c].st = "running" /\ execs'[c].st = "ended"

C4_NonZeroStaysPending ==
    \A c \in Calls :
        calls[c].failed =>
            (calls[c].promise = "pending" /\ ~calls[c].listening)

\* C5 as claimed: a command that ended with a non-zero exit code has its
\* promise rejected.
C5_FailureRejects ==
    \A c \in Calls : calls[c].failed => calls[c].promise = "rejected"

\* C5: a non-zero exit code is never reported as a rejected outcome: the
\* promise of a call is rejected only when sending its command threw, the
\* generate or build flow is rejected only then, and a call sends its
\* command at most once.
C5_NoRejectNoRetry ==
    /\ \A c \in Calls :
          /\ calls[c].failed => calls[c].promise # "rejected"
          /\ calls[c].promise = "rejected" => calls[c].st = "threw"
          /\ Cardinality({i \in DOMAIN log : log[i].call = c}) <= 1
    /\ flow.pc = "rejected" => \E c \in Calls : calls[c].st = "threw"

C5_Witness ==
    \E c \in Calls :
        /\ calls[c].failed
        /\ calls[c].promise = "pending"
        /\ flow.kind = "build" /\ flow.pc = "build" /\ flow.bld = c
        /\ handlers = {}

C7_OneSession ==
    /\ [](/\ Cardinality({s \in Sessions : open[s]}) <= 1
          /\ \A s \in Sessions : open[s] => terminal = s)
    /\ [][created' # created => (terminal = None /\ ncalls' = ncalls + 1)]_vars

C7_Witness ==
    /\ created = MaxSessions
    /\ open[MaxSessions]
    /\ \A s \in Sessions : s # MaxSessions => ~open[s]
    /\ ncalls = MaxCalls

\* C8: the step in which the owned session is closed leaves no owned
\* session and active false, and settles no promise.
C8_CloseForgets ==
    [][ \A s \in Sessions :
            (open[s] /\ ~open'[s] /\ terminal = s) =>
                /\ terminal' = None
                /\ active' = FALSE
                /\ \A c \in Calls : calls'[c].promise = calls[c].promise
      ]_vars

C8_Witness ==
    \E c \in Calls :
        /\ calls[c].st = "sent" /\ calls[c].promise = "pending"
        /\ calls[c].listening
        /\ ~open[calls[c].session]
        /\ terminal = None /\ ~active

\* C9: an exec call made while another call listens for its completion on
\* the owned session does not suspend and creates no session: unless
\* executeCommand throws, its command is sent in that step to that session.
C9_NoQueue ==
    [][ (/\ ncalls' = ncalls + 1
         /\ terminal # None
         /\ \E c \in Calls : calls[c].listening /\ calls[c].session = terminal)
        => /\ created' = created
           /\ terminal' = terminal
           /\ calls'[ncalls'].st \in {"sent", "threw"}
           /\ calls'[ncalls'].st = "sent" =>
                 /\ calls'[ncalls'].session = terminal
                 /\ log' = Append(log, [call |-> ncalls', session |-> terminal])
      ]_vars

C9_Witness ==
    /\ Len(log) = 2
    /\ log[1].session = log[2].session
    /\ calls[log[1].call].listening /\ calls[log[2].call].listening
    /\ calls[log[1].call].subshell
    /\ created = 1

\* C10: a build started without a build directory sends one generate command
\* and sends its build command only after that generate command has ended
\* with exit code 0; a build started with the directory sends no generate
\* command.
C10_GenerateThenBuild ==
    flow.kind = "build" =>
        /\ flow.hadDir => flow.gen = None
        /\ ~flow.hadDir =>
              /\ flow.gen # None /\ calls[flow.gen].cmd = "generate"
              /\ flow.bld # None =>
                    /\ calls[flow.bld].cmd = "build"
                    /\ execs[flow.gen].st = "ended"
                    /\ execs[flow.gen].code = 0

\* the exec call made in this step, and the commands sent in this step
Called == ncalls' = ncalls + 1

NewlySent == {log'[i] : i \in (Len(log) + 1)..Len(log')}

\* C17: a command is sent only to the owned session and only once that
\* session has announced its shell integration; an exec call made while the
\* integration is not available suspends without sending, a suspended call
\* sends only in a step that leaves the integration of the owned session
\* announced, and a suspended call does not keep a further exec call from
\* being made.
C17_SendsAfterReady ==
    [][ /\ \A e \in NewlySent :
              /\ e.session = terminal'
              /\ integ'[e.session]
              /\ calls[e.call].st = "waiting" =>
                    (~Called /\ terminal = e.session)
        /\ (Called /\ (terminal = None \/ ~integ[terminal])) =>
              /\ calls'[ncalls'].st = "waiting"
              /\ log' = log
        /\ \A c \in Calls :
              (calls[c].st = "waiting" /\ calls'[c].st # "waiting") =>
                  (terminal # None /\ integ'[terminal] /\ ~Called)
        /\ ((\E c \in Calls : calls[c].st = "waiting")
               /\ ncalls < MaxCalls
               /\ (terminal # None \/ created < MaxSessions)) =>
              ENABLED ExecRaw
      ]_vars

C17_Witness ==
    \E c, d \in Calls :
        /\ c # d
        /\ calls[c].made /\ calls[c].st = "sent"
        /\ ~calls[d].made /\ calls[d].st = "sent"
        /\ calls[c].session = calls[d].session
        /\ log = <<[call |-> c, session |-> calls[c].session],
                   [call |-> d, session |-> calls[c].session]>>
        /\ execs[c].st = "running" /\ execs[d].st = "running"
        /\ handlers = {}
        /\ ~calls[c].subshell /\ ~calls[d].subshell

\* C18: a session is created only in the step of an exec call; an exec call
\* made while no session is open (none was created yet or the owned one was
\* closed) creates exactly one session, owns it and shows it, and sends no
\* command in that step.
C18_RecreateOnExec ==
    [][ /\ created' # created => Called
        /\ (Called /\ \A s \in Sessions : ~open[s]) =>
              /\ created' = created + 1
              /\ terminal' = created'
              /\ open' = [open EXCEPT ![created'] = TRUE]
              /\ active'
              /\ calls'[ncalls'].made /\ calls'[ncalls'].showed
              /\ log' = log
      ]_vars

C18_Witness ==
    /\ created = 2 /\ terminal = 2
    /\ ~open[1] /\ open[2]
    /\ calls[1].session = 1 /\ calls[1].st = "sent"
    /\ calls[2].made /\ calls[2].showed /\ calls[2].st = "waiting"

\* C19: an exec call made while a session is owned and is not the active
\* terminal shows that session and creates none; if its command is sent in
\* that step it is sent to that session.
C19_ShowsWithoutCreating ==
    [][ (Called /\ terminal # None /\ ~active) =>
            /\ calls'[ncalls'].showed
            /\ ~calls'[ncalls'].made
            /\ active'
            /\ created' = created
            /\ terminal' = terminal
            /\ open' = open
            /\ \A e \in NewlySent : e.session = terminal
      ]_vars

C19_Witness ==
    \E c \in Calls :
        /\ calls[c].showed /\ ~calls[c].made
        /\ calls[c].st = "sent"
        /\ calls[c].session = terminal
        /\ created = 1
        /\ active

\* C20: the step in which generate is called leaves the build directory
\* absent, whether or not its command is sent in that step, and whenever a
\* generate command is sent to the session the build directory is absent.
C20_GenerateAgainstAbsentDir ==
    [][ /\ (Called /\ calls'[ncalls'].cmd = "generate") => ~buildDir'
        /\ \A e \in NewlySent :
              calls'[e.call].cmd = "generate" => ~buildDir'
      ]_vars

C20_Witness ==
    /\ flow.kind = "generate" /\ flow.hadDir
    /\ calls[flow.gen].made
    /\ calls[flow.gen].st = "sent"
    /\ execs[flow.gen].st = "running"
    /\ ~buildDir

\* the models a load pass has produced or is producing
Models == {loading, provider.cmake}

SameKey(a, b) == a.name = b.name /\ a.type = b.type

\* C11: a run call for a target whose output directory of the requested
\* configuration is absent, or whose output name is absent, is rejected with
\* the error 'No output file'.
C11_MissingArtifactRejected ==
    (/\ run.st # "none"
     /\ \/ run.target.outDir[run.config] = NoPath
        \/ run.target.outName = Undefined)
        => (run.st = "rejected" /\ run.error = "No output file")

\* C12: every model has the build targets 'all' and 'clean' as its first
\* two targets, from its construction on, and a step of a load pass keeps
\* every target of the model in its place with its name and variant.
C12_ImplicitTargets ==
    /\ [](\A cm \in Models :
            /\ Len(cm.targets) >= 2
            /\ cm.targets[1].name = "all" /\ cm.targets[1].type = "BUILD"
            /\ cm.targets[2].name = "clean" /\ cm.targets[2].type = "BUILD")
    /\ [][ loading'.gen = loading.gen =>
             /\ Len(loading'.targets) >= Len(loading.targets)
             /\ \A k \in DOMAIN loading.targets :
                   /\ SameKey(loading'.targets[k], loading.targets[k])
                   /\ loading'.targets[k].obj = loading.targets[k].obj
         ]_vars

C12_Witness ==
    /\ status = "idle"
    /\ provider.cmake.gen = 1
    /\ Len(provider.cmake.targets) = 3
    /\ provider.cmake.targets[3].name = "core"
    /\ provider.cmake.targets[3].outDir["RELEASE"] = <<"lib">>
    /\ provider.cmake.files = <<Root>>

\* C13: no two targets of a model have the same name and the same variant.
C13_UniqueByKey ==
    \A cm \in Models :
        \A i, j \in DOMAIN cm.targets :
            i # j => ~SameKey(cm.targets[i], cm.targets[j])

\* C14: the step of setCMake leaves selected a target object of the new
\* model: the first one with the name and variant of the previous selection
\* when the new model has such a target, the first target of the new model
\* otherwise; it is not undefined and not an object of the replaced model.
C14_ReselectedInNewModel ==
    [][ provider'.cmake # provider.cmake =>
          LET old == provider.target
              ts == provider'.cmake.targets
              new == provider'.target
              Eq == {k \in DOMAIN ts : SameKey(ts[k], old)}
          IN  /\ new # NoTarget
              /\ new.obj[1] = provider'.cmake.gen
              /\ new.obj[1] # provider.cmake.gen
              /\ new.obj[2] \in DOMAIN ts
              /\ ts[new.obj[2]] = new
              /\ Eq # {} => (new.obj[2] \in Eq /\ \A k \in Eq : new.obj[2] <= k)
              /\ Eq = {} => new = ts[1]
      ]_vars

C14_Witness ==
    /\ status = "idle"
    /\ provider.cmake.gen = 2
    /\ provider.prev.type = "RUN"
    /\ provider.prev.obj = <<1, 4>>
    /\ provider.target.type = "RUN"
    /\ provider.target.name = provider.prev.name
    /\ provider.target.obj = <<2, 6>>
    /\ provider.target.outName # provider.prev.outName

\* the statement that forEach handles in this step
Handles(cmd) ==
    /\ status = "loading"
    /\ Top.i <= Len(Top.cmds)
    /\ NextCmd.cmd = cmd
    /\ Len(NextCmd.args) > 0
    /\ stack' # stack

\* C15: the step that handles add_executable(X ...) appends to the model a
\* BuildTarget X and a RunTarget X, in this order and nothing else, the
\* RunTarget with the build directory joined with the current subdirectory
\* as output directory of every configuration and with output name X; the
\* step that handles add_library(Y ...) appends a BuildTarget Y and nothing
\* else; both leave the targets that were there as they are.
C15_DeclarationsAppend ==
    [][ LET old == loading.targets
            new == loading'.targets
            n == Len(old)
            X == NextCmd.args[1]
        IN  /\ Handles("add_executable") =>
                /\ Len(new) = n + 2
                /\ SubSeq(new, 1, n) = old
                /\ new[n + 1].name = X /\ new[n + 1].type = "BUILD"
                /\ new[n + 2].name = X /\ new[n + 2].type = "RUN"
                /\ \A c \in Configs :
                      new[n + 2].outDir[c] = <<"build">> \o Top.subdir
                /\ new[n + 2].outName = X
            /\ Handles("add_library") =>
                /\ Len(new) = n + 1
                /\ SubSeq(new, 1, n) = old
                /\ new[n + 1].name = X /\ new[n + 1].type = "BUILD"
                /\ new[n + 1].outName = Undefined
      ]_vars

C15_Witness ==
    /\ status = "idle"
    /\ provider.cmake.gen = 1
    /\ Len(provider.cmake.targets) = 5
    /\ provider.cmake.targets[3].name = "core"
    /\ provider.cmake.targets[3].type = "BUILD"
    /\ provider.cmake.targets[4].name = "app"
    /\ provider.cmake.targets[4].type = "BUILD"
    /\ provider.cmake.targets[5].name = "app"
    /\ provider.cmake.targets[5].type = "RUN"
    /\ provider.cmake.targets[5].outDir["RELEASE"] = <<"build", "libs">>
    /\ provider.cmake.targets[5].outName = "app"

\* C16: no load pass ends with an exception.
C16_LoadNeverThrows == status # "threw"

\* the directory holds a build-description file
OnDisk(dir) == dir \in Dirs /\ disk[dir].exists

\* C22: when the build-description file of the directory being loaded does
\* not exist, the load returns the model as it was handed in: for the root
\* directory the new model has no file and the implicit targets only and the
\* pass ends without an exception; for a subdirectory the model is left as
\* it is and the referencing file goes on with its next statement.
C22_MissingFileKeepsModel ==
    [][ /\ (status = "idle" /\ status' # "idle" /\ ~OnDisk(Root)') =>
              /\ status' = "parsed"
              /\ loading'.files = <<>>
              /\ Len(loading'.targets) = 2
              /\ \A k \in 1..2 : loading'.targets[k].type = "BUILD"
              /\ loading'.targets[1].name = "all"
              /\ loading'.targets[2].name = "clean"
        /\ (/\ Handles("add_subdirectory")
            /\ ~OnDisk(Join(Top.subdir, NextCmd.args[1]))) =>
              /\ loading' = loading
              /\ status' = "loading"
              /\ stack' = [stack EXCEPT ![Len(stack)].i = @ + 1]
      ]_vars

C22_Witness ==
    /\ status = "loading"
    /\ Len(stack) = 1
    /\ Top.i = 2
    /\ Top.cmds[1] = [cmd |-> "add_subdirectory", args |-> <<"libs">>]
    /\ ~OnDisk(Libs)
    /\ loading.files = <<Root>>
    /\ Len(loading.targets) = 2

\* the place of the PROPERTIES marker in the arguments of a statement, 0
\* when there is none
Marker(args) ==
    LET P == {k \in DOMAIN args : args[k] = "PROPERTIES"}
    IN  IF P = {} THEN 0 ELSE CHOOSE k \in P : \A j \in P : k <= j

\* the statement ends with a key that has no value
Trailing(args) == Marker(args) > 0 /\ (Len(args) - Marker(args)) % 2 = 1

\* C23: a key that follows the PROPERTIES marker without a value after it is
\* ignored: the statement changes the targets as the same statement without
\* that key does.
C23_TrailingKeyIgnored ==
    [][ (Handles("set_target_properties") /\ Trailing(NextCmd.args)) =>
            loading'.targets =
                set_target_properties(loading, Top.subdir,
                    SubSeq(NextCmd.args, 1, Len(NextCmd.args) - 1)).targets
      ]_vars

\* the lines of the file that the call of parse_cmake f has read
Read(f) == disk[f.subdir].lines

\* the number of single-line statements among the first n lines
RECURSIVE Stmts(_, _)
Stmts(lines, n) ==
    IF n = 0 THEN 0
    ELSE Stmts(lines, n - 1) + (IF lines[n].shape = "stmt" THEN 1 ELSE 0)

\* C24 as claimed: a statement whose text spans more than one physical line
\* produces no statement: the statements of a file are its single-line
\* statements.
C24_MultiLineSkipped ==
    status = "loading" =>
        \A n \in DOMAIN stack :
            /\ Len(stack[n].cmds) = Stmts(Read(stack[n]), Len(Read(stack[n])))
            /\ \A p \in DOMAIN Read(stack[n]) :
                  Read(stack[n])[p].shape = "stmt" =>
                      stack[n].cmds[Stmts(Read(stack[n]), p)] =
                          [cmd |-> Read(stack[n])[p].cmd,
                           args |-> Read(stack[n])[p].args]

\* C24: a statement that is opened on one line and closed on the next one is
\* scanned as one statement, in its place among the statements of the file,
\* with the tokens of both lines as its arguments.
C24_MultiLineScanned ==
    status = "loading" =>
        \A n \in DOMAIN stack :
            \A p \in DOMAIN Read(stack[n]) :
                (/\ p < Len(Read(stack[n]))
                 /\ Read(stack[n])[p].shape = "open"
                 /\ Read(stack[n])[p + 1].shape = "close"
                 /\ \A j \in 1..(p - 1) :
                       Read(stack[n])[j].shape \in {"stmt", "text"}) =>
                    /\ Len(stack[n].cmds) > Stmts(Read(stack[n]), p)
                    /\ stack[n].cmds[Stmts(Read(stack[n]), p) + 1] =
                          [cmd |-> Read(stack[n])[p].cmd,
                           args |-> Read(stack[n])[p].args
                                        \o Read(stack[n])[p + 1].args]

C24_Witness ==
    /\ status = "parsed"
    /\ disk[Root].exists
    /\ Len(disk[Root].lines) = 2
    /\ disk[Root].lines[1].shape = "open"
    /\ disk[Root].lines[1].cmd = "add_library"
    /\ disk[Root].lines[2].shape = "close"
    /\ Len(loading.targets) = 3
    /\ loading.targets[3].name = "core"

\* the name and variant of the targets a declaration statement appends
Declared(s) ==
    LET X == IF Len(s.args) > 0 THEN s.args[1] ELSE Undefined
    IN  IF s.cmd = "add_executable"
            THEN <<[name |-> X, type |-> "BUILD"], [name |-> X, type |-> "RUN"]>>
        ELSE IF s.cmd \in {"add_library", "add_custom_target"}
            THEN <<[name |-> X, type |-> "BUILD"]>>
        ELSE IF s.cmd = "enable_testing"
            THEN <<[name |-> "test", type |-> "BUILD"]>>
        ELSE <<>>

\* the declarations of the file of directory dir from its statement k on, in
\* document order: those of a referenced file in the place of the reference
RECURSIVE InOrder(_, _, _)
InOrder(dir, k, depth) ==
    LET cmds == Scan(disk[dir].lines)
    IN  IF depth = 0 \/ k > Len(cmds) THEN <<>>
        ELSE (IF cmds[k].cmd # "add_subdirectory" THEN Declared(cmds[k])
              ELSE IF Len(cmds[k].args) > 0
                      /\ OnDisk(Join(dir, cmds[k].args[1]))
                  THEN InOrder(Join(dir, cmds[k].args[1]), 1, depth - 1)
              ELSE <<>>)
                 \o InOrder(dir, k + 1, depth)

\* C25: the targets of a loaded model are, in this order, the implicit
\* 'all' and 'clean' and then the targets of the declaration statements in
\* document order, those of a file referenced by add_subdirectory before
\* those of the later statements of the referencing file.
C25_DocumentOrder ==
    status = "parsed" =>
        [k \in DOMAIN loading.targets |->
            [name |-> loading.targets[k].name,
             type |-> loading.targets[k].type]]
          = <<[name |-> "all", type |-> "BUILD"],
              [name |-> "clean", type |-> "BUILD"]>>
                 \o InOrder(Root, 1, MaxDepth)

C25_Witness ==
    /\ status = "parsed"
    /\ OnDisk(Root) /\ OnDisk(Libs)
    /\ Scan(disk[Root].lines) =
          <<[cmd |-> "add_subdirectory", args |-> <<"libs">>],
            [cmd |-> "add_library", args |-> <<"core">>]>>
    /\ Scan(disk[Libs].lines) = <<[cmd |-> "add_executable", args |-> <<"app">>]>>
    /\ Len(loading.targets) = 5
    /\ loading.targets[3].name = "app" /\ loading.targets[4].name = "app"
    /\ loading.targets[5].name = "core"

\* the target names of a set_target_properties statement
Named(args) ==
    {args[k] : k \in 1..((IF Marker(args) = 0 THEN Len(args) + 1
                          ELSE Marker(args)) - 1)}

\* C26: a set_target_properties statement that names no target of the model
\* as it is when the statement is handled changes no target, and a target
\* declared after it gets the default output directory and output name.
C26_OnlyDeclaredTargets ==
    [][ /\ (/\ Handles("set_target_properties")
            /\ \A k \in DOMAIN loading.targets :
                  loading.targets[k].name \notin Named(NextCmd.args)) =>
               loading'.targets = loading.targets
        /\ \A cmd \in {"add_executable", "add_library", "add_custom_target"} :
              Handles(cmd) =>
                 \A k \in (Len(loading.targets) + 1)..Len(loading'.targets) :
                    /\ loading'.targets[k].outName =
                          IF loading'.targets[k].type = "RUN"
                          THEN NextCmd.args[1] ELSE Undefined
                    /\ \A c \in Configs :
                          loading'.targets[k].outDir[c] =
                             IF loading'.targets[k].type = "RUN"
                             THEN <<"build">> \o Top.subdir ELSE <<>>
      ]_vars

C26_Witness ==
    /\ status = "parsed"
    /\ OnDisk(Root)
    /\ Len(disk[Root].lines) = 2
    /\ disk[Root].lines[1] =
          Stmt("set_target_properties",
               <<"app", "PROPERTIES", "RUNTIME_OUTPUT_DIRECTORY_DEBUG",
                 "${CMAKE_SOURCE_DIR}", "OUTPUT_NAME", "myapp">>)
    /\ disk[Root].lines[2] = Stmt("add_executable", <<"app">>)
    /\ Len(loading.targets) = 4
    /\ loading.targets[4].type = "RUN"
    /\ loading.targets[4].outName = "app"
    /\ loading.targets[4].outDir["DEBUG"] = <<"build">>

\* the places of the key among the keys that have a value
Valued(args, key) ==
    {j \in (Marker(args) + 1)..(Len(args) - 1) :
        (j - Marker(args)) % 2 = 1 /\ args[j] = key}

\* the key governs the field: the field has the value of the last place of
\* the key, or the value it had when the key does not occur; what a key
\* without a value does to its field is the matter of C23
Governs(args, key, before, after, dir) ==
    \/ Trailing(args) /\ args[Len(args)] = key
    \/ LET J == Valued(args, key)
       IN  IF J = {} THEN after = before
           ELSE LET j == CHOOSE x \in J : \A y \in J : y <= x
                IN  after = IF dir THEN <<args[j + 1]>> ELSE args[j + 1]

\* C27: a set_target_properties statement with a PROPERTIES marker leaves the
\* targets it does not name as they are; on the targets it names,
\* OUTPUT_NAME sets the output name whatever the variant,
\* RUNTIME_OUTPUT_DIRECTORY_<config> sets the output directory of that
\* configuration of run targets only, LIBRARY_OUTPUT_DIRECTORY_<config> that
\* of build targets only, and nothing else changes.
C27_PropertyEffects ==
    [][ (Handles("set_target_properties") /\ Marker(NextCmd.args) > 0) =>
          LET args == NextCmd.args
              old == loading.targets
              new == loading'.targets
          IN  /\ Len(new) = Len(old)
              /\ \A k \in DOMAIN old :
                    IF old[k].name \notin Named(args) THEN new[k] = old[k]
                    ELSE /\ new[k].name = old[k].name
                         /\ new[k].type = old[k].type
                         /\ new[k].obj = old[k].obj
                         /\ Governs(args, "OUTPUT_NAME",
                                    old[k].outName, new[k].outName, FALSE)
                         /\ \A c \in Configs :
                               Governs(args,
                                   (IF old[k].type = "RUN" THEN "RUNTIME"
                                    ELSE "LIBRARY")
                                       \o "_OUTPUT_DIRECTORY_" \o c,
                                   old[k].outDir[c], new[k].outDir[c], TRUE)
      ]_vars

C27_Witness ==
    /\ status = "loading"
    /\ Len(loading.targets) = 4
    /\ loading.targets[3].name = "app" /\ loading.targets[3].type = "BUILD"
    /\ loading.targets[3].outName = "myapp"
    /\ loading.targets[3].outDir["DEBUG"] = <<>>
    /\ loading.targets[4].name = "app" /\ loading.targets[4].type = "RUN"
    /\ loading.targets[4].outName = "myapp"
    /\ loading.targets[4].outDir["DEBUG"] = <<"${CMAKE_SOURCE_DIR}">>
    /\ loading.targets[4].outDir["RELEASE"] = <<"build">>

\* C30: a load pass comes to its end: no call of parse_cmake loads a
\* directory that a call in progress is loading, a call that reads the same
\* statements again and so repeats itself without end.
C30_LoadTerminates ==
    \A m, n \in DOMAIN stack : m # n => stack[m].subdir # stack[n].subdir

\* the program path of a run: the output directory of the configuration
\* joined with the output name, the source-directory placeholder replaced
\* by the source directory, which is the root
Program(target, config) ==
    SelectSeq(Append(target.outDir[config], target.outName),
              LAMBDA s : s # "${CMAKE_SOURCE_DIR}")

\* the commands sent for exec calls made by CMake.run
RunCommands == {i \in DOMAIN log : calls[log[i].call].cmd = "run"}

\* C21: a run for the Debug configuration that gets past its checks hands
\* the debug-launch collaborator a descriptor with the resolved program
\* path, the build directory as working directory and the debugger kind it
\* was passed, and makes no exec call; a run for the Release configuration
\* starts no debugger and sends at most one command, that of the one exec
\* call it made for the resolved program path, and exactly one when it is
\* fulfilled.
C21_RunByConfiguration ==
    /\ (run.config = "DEBUG" /\ run.st = "fulfilled") =>
          /\ run.dbg
          /\ run.desc = [type |-> run.kind,
                         program |-> Program(run.target, run.config),
                         cwd |-> <<"build">>]
          /\ run.call = None
          /\ RunCommands = {}
    /\ run.config = "RELEASE" =>
          /\ ~run.dbg /\ run.desc = NoDescriptor
          /\ Cardinality(RunCommands) <= 1
          /\ \A i \in RunCommands : log[i].call = run.call
          /\ run.call # None => run.cmd = Program(run.target, run.config)
          /\ run.st = "fulfilled" => Cardinality(RunCommands) = 1
    /\ run.dbg => run.config = "DEBUG"

C21_Witness ==
    /\ run.st = "fulfilled"
    /\ run.config = "DEBUG"
    /\ run.dbg
    /\ run.target.outDir["DEBUG"] = <<"${CMAKE_SOURCE_DIR}">>
    /\ run.desc.program = <<"myapp">>
    /\ run.desc.type = "cppvsdbg"
    /\ ncalls = 0

\* C28: the steps of generate, build, run and launch leave the model of the
\* provider and the model of the loader as they are; the provider's model
\* is replaced only by the model of a finished load pass, a new object.
C28_ModelReadOnly ==
    [][ /\ (ncalls' # ncalls \/ flow' # flow \/ run' # run
               \/ buildDir' # buildDir) =>
              (provider'.cmake = provider.cmake /\ loading' = loading)
        /\ provider'.cmake # provider.cmake =>
              /\ status = "parsed"
              /\ provider'.cmake = loading
              /\ provider'.cmake.gen # provider.cmake.gen
      ]_vars

C28_Witness ==
    /\ run.st = "fulfilled"
    /\ run.launch
    /\ run.dbg
    /\ flow.gen # None /\ flow.bld # None
    /\ provider.cmake.gen = 1
    /\ provider.cmake.files = <<Root>>
    /\ Len(provider.cmake.targets) = 4
    /\ provider.cmake.targets[4].outDir["DEBUG"] = <<"${CMAKE_SOURCE_DIR}">>
    /\ provider.cmake.targets[4].outName = "myapp"

\* the command of exec call c was sent to a session
WasSent(c) == c # None /\ \E i \in DOMAIN log : log[i].call = c

\* the execution of exec call c has ended with exit code 0
EndedZero(c) == c # None /\ execs[c].st = "ended" /\ execs[c].code = 0

\* the run step of the launch was performed
RunStep == run.launch /\ (run.dbg \/ WasSent(run.call))

\* C29: a launch performs its run step only after its build command has
\* ended with exit code 0, and sends that build command only after the
\* generate command it started, if any, has ended with exit code 0; after
\* the generate or the build command ended with a non-zero exit code, no
\* later step of the launch is sent.
C29_LaunchInOrder ==
    run.launch =>
        /\ RunStep => EndedZero(flow.bld)
        /\ (flow.gen # None /\ WasSent(flow.bld)) => EndedZero(flow.gen)
        /\ (flow.gen # None /\ calls[flow.gen].failed) =>
              (~WasSent(flow.bld) /\ ~RunStep)
        /\ (flow.bld # None /\ calls[flow.bld].failed) => ~RunStep

\* C31: a command is sent only to the session the Terminal owns when it is
\* sent, a session that is open before and after that step; this holds for
\* a call that suspended on a session that was closed since, whose command
\* goes to the session a later exec call created.
C31_SentToOwnedOpenSession ==
    [][ \A e \in NewlySent :
            /\ e.session \in Sessions
            /\ e.session = terminal'
            /\ open[e.session] /\ open'[e.session]
            /\ calls'[e.call].session = e.session
      ]_vars

C31_Witness ==
    /\ calls[1].made /\ calls[2].made
    /\ created = 2 /\ terminal = 2
    /\ ~open[1] /\ open[2]
    /\ log = <<[call |-> 1, session |-> 2], [call |-> 2, session |-> 2]>>
    /\ calls[1].st = "sent" /\ calls[1].session = 2

\* C32: whenever the active flag is true the Terminal owns a session.
C32_ActiveImpliesOwned == active => terminal # None

\* C33: the step that closes the terminal of another owner leaves the owned
\* session, the active flag, the sessions, the exec calls, their executions
\* and what they wait for as they are; and an exec call made while a session
\* is owned, after such a step as at any time, reuses it and creates none.
C33_CloseOtherKeeps ==
    [][ /\ (open[Other] /\ ~open'[Other]) =>
              /\ terminal' = terminal
              /\ active' = active
              /\ created' = created
              /\ integ' = integ
              /\ \A s \in Sessions : open'[s] = open[s]
              /\ calls' = calls /\ execs' = execs
              /\ handlers' = handlers /\ log' = log
        /\ (Called /\ terminal # None) =>
              /\ terminal' = terminal
              /\ created' = created
              /\ ~calls'[ncalls'].made
      ]_vars

C33_Witness ==
    /\ ~open[Other]
    /\ created = 1 /\ terminal = 1 /\ open[1]
    /\ calls[1].made /\ calls[1].st = "sent" /\ calls[1].promise = "pending"
    /\ ~calls[2].made /\ calls[2].st = "sent" /\ calls[2].session = 1

====
